---- MODULE Spec2Model ----
(***************************************************************************)
(* A model of the maptile crate: Tile (src/src/tile.rs), TileIterator      *)
(* (src/src/tile_iterator.rs) and bbox_covered_tiles (src/src/utils.rs).   *)
(*                                                                         *)
(* Option<T> is a sequence of length at most one: None is <<>>, Some(v) is *)
(* <<v>>.  A Tile is a record [zoom, x, y].  A cloneable iterator over u32 *)
(* is the sequence of the items it has still to yield.  A string is the    *)
(* sequence of its characters.                                             *)
(*                                                                         *)
(* The u8 zoom and the u32 coordinates are natural numbers.  The tiles the  *)
(* model computes with have a zoom of a few levels and coordinates of a    *)
(* few bits, so no shift or addition of the model reaches 2^8 or 2^32;     *)
(* only the parser meets the limits of u8 and u32, and tests them.         *)
(***************************************************************************)
EXTENDS Integers, Sequences, FiniteSets, TLC

VARIABLES
    op,         \* the operation applied last ("init" before any)
    tile,       \* the Tile an operation of tile.rs is applied to
    arg,        \* its integer argument (rel_level, buffer)
    ret,        \* what the operation returned
    it,         \* the TileIterator: [zoom, x_range, x_range_fresh, y_range, y]
    last,       \* what the last pull of the iterator returned
    out,        \* the tiles pulled so far, in order
    front,      \* pyramid(): the successors() chain being flattened
    used,       \* pyramid(): the tiles unique() has seen
    bbox,       \* the BBox handed to bbox_covered_tiles
    tiles,      \* the slice handed to sort_by_zorder
    tiles0,     \* that slice as it was before the sort
    s           \* the string handed to Tile::from_str

vars == <<op, tile, arg, ret, it, last, out, front, used, bbox, tiles, tiles0, s>>

(***************************************************************************)
(* Bounds of the model.                                                    *)
(***************************************************************************)
MaxZoom == 2
MaxRel == 2
MaxBuffer == 1
MaxLen == 2
MaxCoord == 1
MaxTiles == 3
MaxFields == 4
Resolution == 3

None == <<>>
Some(v) == <<v>>

Pow2(n) == 2 ^ n

RECURSIVE Pow4(_)
Pow4(n) == IF n = 0 THEN 1 ELSE 4 * Pow4(n - 1)

(***************************************************************************)
(* tile.rs                                                                 *)
(***************************************************************************)
MkTile(z, x, y) == [zoom |-> z, x |-> x, y |-> y]

\* v >> 1 and v << 1 on u32
Shr1(v) == v \div 2
Shl1(v) == v * 2

RECURSIVE BitAnd(_, _)
BitAnd(a, b) ==
    IF a = 0 \/ b = 0 THEN 0
    ELSE (a % 2) * (b % 2) + 2 * BitAnd(a \div 2, b \div 2)

\* A plausible slip: the zoom-0 guard is missing.
parent_NoRootCheck(t) == Some(MkTile(t.zoom - 1, Shr1(t.x), Shr1(t.y)))

parent(t) ==
    IF t.zoom = 0 THEN None
    ELSE Some(MkTile(t.zoom - 1, Shr1(t.x), Shr1(t.y)))

RECURSIVE ancestorLoop(_, _)
\* the body of `for _ in 0..rel_level`, with `n` rounds left
ancestorLoop(opt, n) ==
    IF n = 0 THEN opt
    ELSE IF opt = None THEN opt              \* break
    ELSE ancestorLoop(parent(opt[1]), n - 1)

ancestor(t, rel_level) == ancestorLoop(Some(t), rel_level)

\* A plausible slip: the third child repeats the first one's row.
children_DupRow(t) ==
    LET zoom == t.zoom + 1
        x == Shl1(t.x)
        y == Shl1(t.y)
    IN  << MkTile(zoom, x, y), MkTile(zoom, x + 1, y),
           MkTile(zoom, x, y), MkTile(zoom, x + 1, y + 1) >>

children(t) ==
    LET zoom == t.zoom + 1
        x == Shl1(t.x)
        y == Shl1(t.y)
    IN  << MkTile(zoom, x, y), MkTile(zoom, x + 1, y),
           MkTile(zoom, x, y + 1), MkTile(zoom, x + 1, y + 1) >>

RECURSIVE flatMapChildren(_)
\* tiles.iter().flat_map(Tile::children).collect()
flatMapChildren(ts) ==
    IF ts = <<>> THEN <<>> ELSE children(Head(ts)) \o flatMapChildren(Tail(ts))

RECURSIVE descendantsLoop(_, _)
\* the body of `for _ in 0..rel_level`, with `n` rounds left
descendantsLoop(ts, n) ==
    IF n = 0 THEN ts ELSE descendantsLoop(flatMapChildren(ts), n - 1)

descendants(t, rel_level) == descendantsLoop(<<t>>, rel_level)

\* A plausible slip: the two coordinates are swapped.
sector_in_ancestor_Swapped(t, rel_level) ==
    << BitAnd(t.y, Pow2(rel_level) - 1), BitAnd(t.x, Pow2(rel_level) - 1) >>

sector_in_ancestor(t, rel_level) ==
    << BitAnd(t.x, Pow2(rel_level) - 1), BitAnd(t.y, Pow2(rel_level) - 1) >>

\* The closure `wrap` of children_buffered, with the `max` and `buffer` it captures.
wrap(v, max, buffer) ==
    LET v1 == (IF buffer > v THEN max ELSE 0) + v - buffer
    IN  v1 - (IF v1 >= max THEN max ELSE 0)

children_buffered(t, buffer) ==
    LET zoom == t.zoom + 1
        x == Shl1(t.x)
        y == Shl1(t.y)
        n == (buffer + 1) * 2                 \* range = 0..n (exclusive)
        max == 2 * Pow2(zoom)                 \* 2 << zoom
        \* iproduct!(range.clone(), range): the first range is the outer loop
        item(k) == LET dx == (k - 1) \div n
                       dy == (k - 1) % n
                   IN  MkTile(zoom, wrap(x + dx, max, buffer), wrap(y + dy, max, buffer))
    IN  [k \in 1..(n * n) |-> item(k)]

(***************************************************************************)
(* The operations of tile.rs applied to a tile drawn from a bounded set.   *)
(***************************************************************************)
Coords == 0..(Pow2(MaxZoom) - 1)
\* x and y are not checked against 2^zoom, so a tile may lie outside its grid.
Tiles == [zoom : 0..MaxZoom, x : Coords, y : Coords]
InGrid(t) == t.x < Pow2(t.zoom) /\ t.y < Pow2(t.zoom)

InitTile ==
    /\ op = "init"
    /\ tile \in Tiles
    /\ arg = 0
    /\ ret = None
    /\ it = None /\ last = None /\ out = <<>> /\ front = None /\ used = {}
    /\ bbox = None /\ tiles = <<>> /\ tiles0 = <<>> /\ s = <<>>

Ancestor ==
    /\ op = "init"
    /\ \E k \in 0..(MaxZoom + 1) :
          /\ arg' = k
          /\ ret' = ancestor(tile, k)
    /\ op' = "ancestor"
    /\ UNCHANGED <<tile, it, last, out, front, used, bbox, tiles, tiles0, s>>

Descendants ==
    /\ op = "init"
    /\ \E n \in 0..MaxRel :
          /\ arg' = n
          /\ ret' = descendants(tile, n)
    /\ op' = "descendants"
    /\ UNCHANGED <<tile, it, last, out, front, used, bbox, tiles, tiles0, s>>

\* t.parent().children() beside t.sector_in_ancestor(1)
ParentChildren ==
    /\ op = "init"
    /\ arg' = 1
    /\ ret' = [ kids |-> IF parent(tile) = None THEN None
                         ELSE Some(children(parent(tile)[1])),
                sector |-> sector_in_ancestor(tile, 1) ]
    /\ op' = "parent_children"
    /\ UNCHANGED <<tile, it, last, out, front, used, bbox, tiles, tiles0, s>>

ChildrenBuffered ==
    /\ op = "init"
    /\ \E b \in 0..MaxBuffer :
          /\ arg' = b
          /\ ret' = children_buffered(tile, b)
    /\ op' = "children_buffered"
    /\ UNCHANGED <<tile, it, last, out, front, used, bbox, tiles, tiles0, s>>

NextTile == Ancestor \/ Descendants \/ ParentChildren \/ ChildrenBuffered

SpecTile == InitTile /\ [][NextTile]_vars

(***************************************************************************)
(* Claims about tile.rs, checked under SpecTile.                           *)
(***************************************************************************)
Distinct(seq) == \A i, j \in 1..Len(seq) : i # j => seq[i] # seq[j]

\* C3: for a tile inside its grid, children_buffered(buffer) yields (2*(buffer+1))^2
\* tiles at zoom+1, x-offset outer and y-offset inner, the tile at offset (dx, dy)
\* being ((2x + dx - buffer) mod 2^(zoom+1), (2y + dy - buffer) mod 2^(zoom+1)), so
\* every coordinate lies inside the child-zoom grid.
C3_ChildrenBufferedWrapsAtChildGrid ==
    (op = "children_buffered" /\ InGrid(tile)) =>
        LET n == 2 * (arg + 1)
            w == Pow2(tile.zoom + 1)
        IN  /\ Len(ret) = n * n
            /\ \A dx, dy \in 0..(n - 1) :
                  ret[dx * n + dy + 1] =
                      MkTile(tile.zoom + 1,
                             (2 * tile.x + dx - arg) % w,
                             (2 * tile.y + dy - arg) % w)

\* C5: descendants(n) returns 4^n pairwise distinct tiles at zoom+n, each with
\* ancestor(n) = Some(t); descendants(0) = [t], descendants(1) = children(), and
\* every child's parent is t.
C5_DescendantsAreTheSubtree ==
    op = "descendants" =>
        /\ Len(ret) = Pow4(arg)
        /\ Distinct(ret)
        /\ \A i \in 1..Len(ret) :
              /\ ret[i].zoom = tile.zoom + arg
              /\ ancestor(ret[i], arg) = Some(tile)
        /\ (arg = 0 => ret = <<tile>>)
        /\ (arg = 1 => /\ ret = children(tile)
                       /\ \A i \in 1..4 : parent(ret[i]) = Some(tile))

C5_Witness ==
    op = "descendants" /\ arg = MaxRel /\ tile.zoom > 0 /\ tile.x > 0 /\ tile.y > 0

\* C6: for a tile of zoom >= 1, parent().children() holds the tile exactly once, at
\* index sx + 2*sy (counted from 0) where (sx, sy) = sector_in_ancestor(1).
C6_TileIsItsParentsChildAtItsSector ==
    (op = "parent_children" /\ tile.zoom >= 1) =>
        /\ ret.kids # None
        /\ LET kids == ret.kids[1]
               at == ret.sector[1] + 2 * ret.sector[2] + 1
           IN  /\ Len(kids) = 4
               /\ Cardinality({i \in 1..4 : kids[i] = tile}) = 1
               /\ at \in 1..4
               /\ kids[at] = tile

C6_Witness ==
    op = "parent_children" /\ tile.zoom >= 1 /\ ret.sector = <<1, 0>>

\* C7: ancestor(k) is None exactly when k > zoom, and otherwise the tile
\* {zoom - k, x >> k, y >> k}; so ancestor(0) is the tile and ancestor(zoom) is at zoom 0.
C7_AncestorIsShiftOrNone ==
    op = "ancestor" =>
        /\ (ret = None) <=> (arg > tile.zoom)
        /\ arg <= tile.zoom =>
              ret = Some(MkTile(tile.zoom - arg,
                                tile.x \div Pow2(arg), tile.y \div Pow2(arg)))
        /\ arg = 0 => ret = Some(tile)
        /\ arg = tile.zoom => ret # None /\ ret[1].zoom = 0

C7_Witness ==
    op = "ancestor" /\ tile.zoom >= 1 /\ arg > tile.zoom /\ ret = None

(***************************************************************************)
(* tile_iterator.rs                                                        *)
(***************************************************************************)
\* Iterator::next of a cloneable u32 iterator: the item, and the iterator left
IterItem(range) == IF range = <<>> THEN None ELSE Some(Head(range))
IterRest(range) == IF range = <<>> THEN <<>> ELSE Tail(range)

\* TileIterator::new
new(zoom, x_range, y_range) ==
    [ zoom |-> zoom,
      x_range_fresh |-> x_range,
      x_range |-> x_range,
      y |-> IterItem(y_range),
      y_range |-> IterRest(y_range) ]

\* A plausible slip: the row is not advanced past the last y, so the iterator
\* restarts its last row after it has returned None.
RECURSIVE next_KeepsLastRow(_)
next_KeepsLastRow(self) ==
    IF self.y = None THEN [self |-> self, item |-> None]
    ELSE IF self.x_range # <<>>
         THEN [ self |-> [self EXCEPT !.x_range = IterRest(@)],
                item |-> Some(MkTile(self.zoom, Head(self.x_range), self.y[1])) ]
    ELSE IF self.y_range = <<>>
         THEN [ self |-> [self EXCEPT !.x_range = self.x_range_fresh],
                item |-> None ]
    ELSE next_KeepsLastRow([self EXCEPT !.x_range = self.x_range_fresh,
                                        !.y = IterItem(self.y_range),
                                        !.y_range = IterRest(self.y_range)])

\* A plausible slip: the x-sequence is not reset, so only the first row is full.
RECURSIVE next_NoReset(_)
next_NoReset(self) ==
    IF self.y = None THEN [self |-> self, item |-> None]
    ELSE IF self.x_range # <<>>
         THEN [ self |-> [self EXCEPT !.x_range = IterRest(@)],
                item |-> Some(MkTile(self.zoom, Head(self.x_range), self.y[1])) ]
    ELSE next_NoReset([self EXCEPT !.y = IterItem(self.y_range),
                                   !.y_range = IterRest(self.y_range)])

\* <TileIterator as Iterator>::next: the iterator after the call, and the item
RECURSIVE next(_)
next(self) ==
    IF self.y = None THEN [self |-> self, item |-> None]          \* let y = self.y?
    ELSE IF self.x_range # <<>>
         THEN [ self |-> [self EXCEPT !.x_range = IterRest(@)],
                item |-> Some(MkTile(self.zoom, Head(self.x_range), self.y[1])) ]
    ELSE next([self EXCEPT !.x_range = self.x_range_fresh,
                           !.y = IterItem(self.y_range),
                           !.y_range = IterRest(self.y_range)])

\* FlatMap::next over successors(Some(tile), Tile::parent): `fr` is the chain's
\* next tile (None when no chain is open)
RECURSIVE flatMapNext(_, _)
flatMapNext(self, fr) ==
    IF fr # None
    THEN [self |-> self, front |-> parent(fr[1]), item |-> fr]
    ELSE LET r == next(self)
         IN  IF r.item = None
             THEN [self |-> r.self, front |-> None, item |-> None]
             ELSE flatMapNext(r.self, r.item)

\* A plausible slip: no deduplication.
uniqueNext_NoDedup(self, fr, seen) ==
    LET r == flatMapNext(self, fr)
    IN  [self |-> r.self, front |-> r.front, used |-> seen, item |-> r.item]

\* Unique::next: skip what `used` holds already
RECURSIVE uniqueNext(_, _, _)
uniqueNext(self, fr, seen) ==
    LET r == flatMapNext(self, fr)
    IN  IF r.item = None
        THEN [self |-> r.self, front |-> r.front, used |-> seen, item |-> None]
        ELSE IF r.item[1] \notin seen
        THEN [ self |-> r.self, front |-> r.front,
               used |-> seen \cup {r.item[1]}, item |-> r.item ]
        ELSE uniqueNext(r.self, r.front, seen)

(***************************************************************************)
(* A TileIterator over bounded sequences, pulled directly or through       *)
(* pyramid().  arg keeps the arguments of new(); ret collects what the     *)
(* pyramid yields.  last is None before the first pull, then Some(item).   *)
(***************************************************************************)
RECURSIVE SeqsUpTo(_, _)
SeqsUpTo(S, n) ==
    IF n = 0 THEN {<<>>}
    ELSE LET shorter == SeqsUpTo(S, n - 1)
         IN  shorter \cup {Append(q, v) : q \in {r \in shorter : Len(r) = n - 1}, v \in S}

Ranges == SeqsUpTo(0..MaxCoord, MaxLen)

InitIter ==
    /\ op = "iter"
    /\ \E z \in 0..MaxZoom, xs \in Ranges, ys \in Ranges :
          /\ arg = [zoom |-> z, x_range |-> xs, y_range |-> ys]
          /\ it = new(z, xs, ys)
    /\ last = None
    /\ out = <<>>
    /\ ret = <<>>
    /\ front = None
    /\ used = {}
    /\ tile = None /\ bbox = None /\ tiles = <<>> /\ tiles0 = <<>> /\ s = <<>>

\* one call of TileIterator::next
Pull ==
    /\ op \in {"iter", "covered"}
    /\ LET r == next(it)
       IN  /\ it' = r.self
           /\ last' = Some(r.item)
           /\ out' = IF r.item = None THEN out ELSE Append(out, r.item[1])
    /\ UNCHANGED <<op, tile, arg, ret, front, used, bbox, tiles, tiles0, s>>

\* pyramid(self): the iterator moves into the adapter
Pyramid ==
    /\ op = "iter"
    /\ op' = "pyramid"
    /\ front' = None
    /\ used' = {}
    /\ ret' = <<>>
    /\ last' = None
    /\ UNCHANGED <<tile, arg, it, out, bbox, tiles, tiles0, s>>

\* one call of next on the iterator pyramid() returned
PyramidPull ==
    /\ op = "pyramid"
    /\ LET r == uniqueNext(it, front, used)
       IN  /\ it' = r.self
           /\ front' = r.front
           /\ used' = r.used
           /\ last' = Some(r.item)
           /\ ret' = IF r.item = None THEN ret ELSE Append(ret, r.item[1])
    /\ UNCHANGED <<op, tile, arg, out, bbox, tiles, tiles0, s>>

NextIter == Pull \/ Pyramid \/ PyramidPull

SpecIter == InitIter /\ [][NextIter]_vars

\* The iterator alone, pulled for as long as a pull changes anything.
SpecPull == InitIter /\ [][Pull]_vars /\ WF_vars(Pull)

(***************************************************************************)
(* Claims about tile_iterator.rs.                                          *)
(***************************************************************************)
IsPrefix(p, q) == Len(p) <= Len(q) /\ p = SubSeq(q, 1, Len(p))

\* for each y of ys in order, all x of xs in order
RowMajor(z, xs, ys) ==
    [k \in 1..(Len(xs) * Len(ys)) |->
        MkTile(z, xs[((k - 1) % Len(xs)) + 1], ys[((k - 1) \div Len(xs)) + 1])]

\* the tile, its parent, its grandparent, ... down to zoom 0
Chain(t) ==
    [k \in 1..(t.zoom + 1) |->
        MkTile(t.zoom - (k - 1), t.x \div Pow2(k - 1), t.y \div Pow2(k - 1))]

RECURSIVE Chains(_)
\* the chains of the tiles of seq, one after the other
Chains(seq) == IF seq = <<>> THEN <<>> ELSE Chain(Head(seq)) \o Chains(Tail(seq))

RECURSIVE FirstEncounters(_, _)
\* seq without the items of `seen` and without its repeats, in order
FirstEncounters(seq, seen) ==
    IF seq = <<>> THEN <<>>
    ELSE IF Head(seq) \in seen THEN FirstEncounters(Tail(seq), seen)
    ELSE <<Head(seq)>> \o FirstEncounters(Tail(seq), seen \cup {Head(seq)})

Range(seq) == {seq[i] : i \in 1..Len(seq)}

AllTiles == RowMajor(arg.zoom, arg.x_range, arg.y_range)

\* C1: pulled to exhaustion, TileIterator::new(zoom, X, Y) yields exactly |X|*|Y|
\* tiles of the given zoom, row-major (the whole X for every y), and nothing else;
\* what it has yielded before is a prefix of that.
C1_RowMajorEnumeration ==
    op = "iter" =>
        /\ IsPrefix(out, AllTiles)
        /\ last = Some(None) =>
              /\ out = AllTiles
              /\ Len(out) = Len(arg.x_range) * Len(arg.y_range)
              /\ \A i \in 1..Len(out) : out[i].zoom = arg.zoom

C1_Witness ==
    /\ op = "iter" /\ last = Some(None)
    /\ Len(arg.x_range) = 2 /\ arg.x_range[1] # arg.x_range[2]
    /\ Len(arg.y_range) = 2 /\ arg.y_range[1] # arg.y_range[2]
    /\ Len(out) = 4

\* the tiles the base iterator had still to yield when pyramid() took it
BaseTiles == SubSeq(AllTiles, Len(out) + 1, Len(AllTiles))

\* C2: pyramid() yields every base tile and every ancestor of one exactly once, in
\* the order of first encounter in the concatenation of the base tiles' chains
\* (tile, parent, ..., zoom 0), and nothing else.
C2_PyramidFirstEncounterOnce ==
    op = "pyramid" =>
        LET chains == Chains(BaseTiles)
        IN  /\ Distinct(ret)
            /\ IsPrefix(ret, FirstEncounters(chains, {}))
            /\ last = Some(None) =>
                  /\ ret = FirstEncounters(chains, {})
                  /\ Range(ret) = Range(chains)

C2_Witness ==
    /\ op = "pyramid" /\ last = Some(None)
    /\ Len(BaseTiles) >= 2
    /\ Len(ret) < Len(Chains(BaseTiles))
    /\ Len(ret) > arg.zoom + 1

\* C10: pulled again and again, the iterator is exhausted after finitely many
\* pulls; an empty x-sequence yields no tile; and once a pull has returned None
\* every later pull returns None and yields no tile.
C10_ExhaustionIsReachedAndTerminal ==
    /\ <>[](it.y = None /\ last = Some(None))
    /\ [](arg.x_range = <<>> => out = <<>>)
    /\ [][last = Some(None) => (last' = Some(None) /\ out' = out)]_vars

C10_Witness ==
    /\ op = "iter" /\ last = Some(None)
    /\ it.y = None /\ it.x_range # <<>> /\ out # <<>>

(***************************************************************************)
(* tile.rs: the Morton code and the Z-order sort                           *)
(***************************************************************************)
InterleaveBits == 32

RECURSIVE BitOr(_, _)
BitOr(a, b) ==
    IF a = 0 THEN b
    ELSE IF b = 0 THEN a
    ELSE (IF a % 2 = 1 \/ b % 2 = 1 THEN 1 ELSE 0) + 2 * BitOr(a \div 2, b \div 2)

RECURSIVE interleaveLoop(_, _, _)
\* the body of `for i in 0..32`: `shifted` is v >> i
interleaveLoop(shifted, i, result) ==
    IF i = InterleaveBits THEN result
    ELSE interleaveLoop(shifted \div 2, i + 1,
                        BitOr(result, IF shifted % 2 = 0 THEN 0 ELSE Pow2(2 * i)))

interleave(v) == interleaveLoop(v, 0, 0)

\* A plausible slip: x and y change places.
morton_code_YFirst(t) == BitOr(interleave(t.y), 2 * interleave(t.x))

morton_code(t) == BitOr(interleave(t.x), 2 * interleave(t.y))

RECURSIVE insertByKey(_, _)
\* `t` put behind every tile of the sorted `seq` whose key is not larger
insertByKey(seq, t) ==
    IF seq = <<>> THEN <<t>>
    ELSE IF morton_code(Head(seq)) <= morton_code(t)
         THEN <<Head(seq)>> \o insertByKey(Tail(seq), t)
         ELSE <<t>> \o seq

RECURSIVE sortLoop(_, _)
sortLoop(sorted, rest) ==
    IF rest = <<>> THEN sorted
    ELSE sortLoop(insertByKey(sorted, Head(rest)), Tail(rest))

\* slice::sort_by_cached_key(Self::morton_code): a stable sort by the key
sort_by_zorder(ts) == sortLoop(<<>>, ts)

\* the (x, y) of the slice's tiles: the four of the worked example and one with
\* several bits set
SortXY == { <<0, 0>>, <<1, 0>>, <<0, 1>>, <<1, 2>>, <<5, 3>> }
SortTiles == { MkTile(z, p[1], p[2]) : z \in {0, 5}, p \in SortXY }

InitSort ==
    /\ op = "init"
    /\ tiles \in SeqsUpTo(SortTiles, MaxTiles)
    /\ tiles0 = tiles
    /\ tile = None /\ arg = 0 /\ ret = None
    /\ it = None /\ last = None /\ out = <<>> /\ front = None /\ used = {}
    /\ bbox = None /\ s = <<>>

\* morton_code() of a tile of the slice
MortonCode ==
    /\ op = "init"
    /\ \E i \in 1..Len(tiles) :
          /\ tile' = tiles[i]
          /\ ret' = morton_code(tiles[i])
    /\ op' = "morton_code"
    /\ UNCHANGED <<arg, it, last, out, front, used, bbox, tiles, tiles0, s>>

SortByZorder ==
    /\ op = "init"
    /\ tiles' = sort_by_zorder(tiles)
    /\ op' = "sorted"
    /\ UNCHANGED <<tile, arg, ret, it, last, out, front, used, bbox, tiles0, s>>

NextSort == MortonCode \/ SortByZorder

SpecSort == InitSort /\ [][NextSort]_vars

Bit(n, k) == (n \div Pow2(k)) % 2

\* bit i of x at bit 2i, bit i of y at bit 2i+1, for the bits a model value can have
Zorder(x, y) ==
    LET at(i) == Bit(x, i) * Pow2(2 * i) + Bit(y, i) * Pow2(2 * i + 1)
    IN  at(0) + at(1) + at(2) + at(3) + at(4) + at(5) + at(6) + at(7)

RECURSIVE WithKey(_, _, _)
\* the items of seq whose key is c, in order
WithKey(seq, keys, c) ==
    IF seq = <<>> THEN <<>>
    ELSE (IF Head(keys) = c THEN <<Head(seq)>> ELSE <<>>)
         \o WithKey(Tail(seq), Tail(keys), c)

\* C8: after sort_by_zorder the slice is a permutation of its input in
\* non-decreasing morton_code(); the code has bit i of x at bit 2i and bit i of y at
\* bit 2i+1 and does not depend on zoom; tiles of equal code keep their input order.
C8_StableZorderSort ==
    /\ op = "morton_code" => ret = Zorder(tile.x, tile.y)
    /\ op = "sorted" =>
          LET keys == [i \in 1..Len(tiles) |-> Zorder(tiles[i].x, tiles[i].y)]
              keys0 == [i \in 1..Len(tiles0) |-> Zorder(tiles0[i].x, tiles0[i].y)]
          IN  /\ Len(tiles) = Len(tiles0)
              /\ \A i \in 1..(Len(tiles) - 1) : keys[i] <= keys[i + 1]
              /\ \A c \in Range(keys0) \cup Range(keys) :
                    WithKey(tiles, keys, c) = WithKey(tiles0, keys0, c)

C8_Witness ==
    /\ op = "sorted" /\ tiles # tiles0
    /\ \E i \in 1..(Len(tiles) - 1) :
          /\ tiles[i].x = tiles[i + 1].x /\ tiles[i].y = tiles[i + 1].y
          /\ tiles[i].zoom > tiles[i + 1].zoom

(***************************************************************************)
(* tile.rs: Display and FromStr.  The digits a u8 and a u32 may reach are  *)
(* given by the largest value divided by ten and its last digit, so that   *)
(* the overflow test needs no number above 2^31.                           *)
(***************************************************************************)
U8MaxDiv10 == 25
U8MaxMod10 == 5
U32MaxDiv10 == 429496729
U32MaxMod10 == 5

Digits == <<"0", "1", "2", "3", "4", "5", "6", "7", "8", "9">>
IsDigit(c) == \E d \in 1..10 : Digits[d] = c
\* char::to_digit(10)
ToDigit(c) == (CHOOSE d \in 1..10 : Digits[d] = c) - 1

Ok(v) == <<"Ok", v>>
Err == <<"Err", "ParseError">>
IsOk(r) == r[1] = "Ok"

RECURSIVE parseDigits(_, _, _, _)
\* the digit loop of from_str_radix: checked_mul(10) then checked_add(digit)
parseDigits(str, acc, maxDiv10, maxMod10) ==
    IF str = <<>> THEN Ok(acc)
    ELSE IF ~IsDigit(Head(str)) THEN Err                       \* InvalidDigit
    ELSE IF acc > maxDiv10 \/ (acc = maxDiv10 /\ ToDigit(Head(str)) > maxMod10)
         THEN Err                                              \* PosOverflow
    ELSE parseDigits(Tail(str), acc * 10 + ToDigit(Head(str)), maxDiv10, maxMod10)

\* str::parse of an unsigned integer type: an optional '+', then one digit or more
parseUnsigned(str, maxDiv10, maxMod10) ==
    IF str = <<>> THEN Err                                     \* Empty
    ELSE IF str = <<"+">> \/ str = <<"-">> THEN Err            \* InvalidDigit
    ELSE IF Head(str) = "+" THEN parseDigits(Tail(str), 0, maxDiv10, maxMod10)
    ELSE parseDigits(str, 0, maxDiv10, maxMod10)

RECURSIVE splitn(_, _)
\* s.splitn(n, '/').collect(): at most n parts, the last one the whole rest
splitn(n, str) ==
    IF n = 1 THEN <<str>>
    ELSE IF \A i \in 1..Len(str) : str[i] # "/" THEN <<str>>
    ELSE LET at == CHOOSE i \in 1..Len(str) :
                      str[i] = "/" /\ \A j \in 1..(i - 1) : str[j] # "/"
         IN  <<SubSeq(str, 1, at - 1)>> \o splitn(n - 1, SubSeq(str, at + 1, Len(str)))

RECURSIVE split(_)
\* s.split('/').collect()
split(str) ==
    IF \A i \in 1..Len(str) : str[i] # "/" THEN <<str>>
    ELSE LET at == CHOOSE i \in 1..Len(str) :
                      str[i] = "/" /\ \A j \in 1..(i - 1) : str[j] # "/"
         IN  <<SubSeq(str, 1, at - 1)>> \o split(SubSeq(str, at + 1, Len(str)))

\* the three fields of Ok(Self { .. }), each with its `?`
tileOfParts(parts) ==
    LET zoom == parseUnsigned(parts[1], U8MaxDiv10, U8MaxMod10)
        x == parseUnsigned(parts[2], U32MaxDiv10, U32MaxMod10)
        y == parseUnsigned(parts[3], U32MaxDiv10, U32MaxMod10)
    IN  IF ~IsOk(zoom) THEN Err
        ELSE IF ~IsOk(x) THEN Err
        ELSE IF ~IsOk(y) THEN Err
        ELSE Ok(MkTile(zoom[2], x[2], y[2]))

\* A plausible slip: every '/' splits and what follows the third field is dropped.
from_str_DropsTail(str) ==
    LET parts == split(str)
    IN  IF Len(parts) < 3 THEN Err ELSE tileOfParts(parts)

\* <Tile as FromStr>::from_str
from_str(str) ==
    LET parts == splitn(3, str)
    IN  IF Len(parts) # 3 THEN Err ELSE tileOfParts(parts)

RECURSIVE fmtUnsigned(_)
\* Display of an unsigned integer: its decimal digits
fmtUnsigned(n) ==
    IF n < 10 THEN <<Digits[n + 1]>>
    ELSE fmtUnsigned(n \div 10) \o <<Digits[(n % 10) + 1]>>

\* <Tile as Display>::fmt: "{}/{}/{}"
fmt(t) == fmtUnsigned(t.zoom) \o <<"/">> \o fmtUnsigned(t.x) \o <<"/">> \o fmtUnsigned(t.y)

(***************************************************************************)
(* Strings of up to MaxFields fields joined by '/', and tiles to format.   *)
(***************************************************************************)
FieldPool ==
    { <<>>, <<"7">>, <<"0", "7">>, <<"2", "5", "5">>, <<"2", "5", "6">>,
      <<"+", "7">>, <<"-", "7">>, <<"7", "x">>,
      <<"4", "2", "9", "4", "9", "6", "7", "2", "9", "6">> }

RECURSIVE Joined(_)
\* the strings of exactly n fields
Joined(n) ==
    IF n = 1 THEN FieldPool
    ELSE {str \o <<"/">> \o f : str \in Joined(n - 1), f \in FieldPool}

Inputs == UNION {Joined(n) : n \in 1..MaxFields}

FmtTiles == [zoom : {0, 7, 255}, x : {0, 10, 1234567890}, y : {0, 9, 2147483647}]

InitParse ==
    /\ op = "init"
    /\ s \in Inputs
    /\ tile = None /\ arg = 0 /\ ret = None
    /\ it = None /\ last = None /\ out = <<>> /\ front = None /\ used = {}
    /\ bbox = None /\ tiles = <<>> /\ tiles0 = <<>>

\* tile.to_string()
Format ==
    /\ op = "init"
    /\ \E t \in FmtTiles :
          /\ tile' = Some(t)
          /\ s' = fmt(t)
    /\ op' = "formatted"
    /\ UNCHANGED <<arg, ret, it, last, out, front, used, bbox, tiles, tiles0>>

\* s.parse::<Tile>()
FromStr ==
    /\ op \in {"init", "formatted"}
    /\ ret' = from_str(s)
    /\ op' = "parsed"
    /\ UNCHANGED <<tile, arg, it, last, out, front, used, bbox, tiles, tiles0, s>>

NextParse == Format \/ FromStr

SpecParse == InitParse /\ [][NextParse]_vars

(***************************************************************************)
(* Claims about Display and FromStr, checked under SpecParse.              *)
(***************************************************************************)
U8MaxText == <<"2", "5", "5">>
U32MaxText == <<"4", "2", "9", "4", "9", "6", "7", "2", "9", "5">>

RECURSIVE StripZeros(_)
StripZeros(digs) ==
    IF Len(digs) > 1 /\ Head(digs) = "0" THEN StripZeros(Tail(digs)) ELSE digs

RECURSIVE LexLeq(_, _)
\* for digit strings of one length: a <= b
LexLeq(a, b) ==
    IF a = <<>> THEN TRUE
    ELSE IF Head(a) # Head(b) THEN ToDigit(Head(a)) < ToDigit(Head(b))
    ELSE LexLeq(Tail(a), Tail(b))

\* the digits of a field, its optional sign taken off
Numeral(f) == IF f # <<>> /\ Head(f) = "+" THEN Tail(f) ELSE f

\* the field is a decimal numeral of a value up to the one maxText writes
IsUnsigned(f, maxText) ==
    LET digs == Numeral(f)
        sig == StripZeros(digs)
    IN  /\ digs # <<>>
        /\ \A i \in 1..Len(digs) : IsDigit(digs[i])
        /\ \/ Len(sig) < Len(maxText)
           \/ Len(sig) = Len(maxText) /\ LexLeq(sig, maxText)

RECURSIVE ValueOf(_)
ValueOf(digs) ==
    IF digs = <<>> THEN 0
    ELSE ToDigit(Head(digs)) * 10 ^ (Len(digs) - 1) + ValueOf(Tail(digs))

\* C9: parsing succeeds exactly when the string splits on '/' into exactly 3
\* fields that are the unsigned integers zoom (u8), x and y (u32), and then yields
\* that tile; every other input fails with the one ParseError; and the text of a
\* tile parses back to the tile.
C9_ParseExactlyThreeUnsignedFields ==
    op = "parsed" =>
        LET fields == split(s)
            valid == /\ Len(fields) = 3
                     /\ IsUnsigned(fields[1], U8MaxText)
                     /\ IsUnsigned(fields[2], U32MaxText)
                     /\ IsUnsigned(fields[3], U32MaxText)
        IN  /\ valid => ret = Ok(MkTile(ValueOf(Numeral(fields[1])),
                                        ValueOf(Numeral(fields[2])),
                                        ValueOf(Numeral(fields[3]))))
            /\ ~valid => ret = Err
            /\ tile # None => ret = Ok(tile[1])

\* a string of more than three fields, all of them numbers, was refused
C9_Witness ==
    /\ op = "parsed" /\ ret = Err
    /\ Len(split(s)) = 4
    /\ \A i \in 1..4 : IsUnsigned(split(s)[i], U8MaxText)

(***************************************************************************)
(* utils.rs and Tile::bounds.  A coordinate is an exact multiple of        *)
(* WEB_MERCATOR_EXTENT / Resolution, written as that multiple, and the     *)
(* f64 arithmetic is exact arithmetic on these rationals: rounding is not  *)
(* modelled.                                                               *)
(***************************************************************************)
WEB_MERCATOR_EXTENT == Resolution

\* (num / den).floor() and (num / den).ceil(), den > 0
Floor(num, den) == num \div den
Ceil(num, den) == -((-num) \div den)

\* `as u32` of a float that is a whole number below 2^32: negative values give 0
AsU32(v) == IF v < 0 THEN 0 ELSE v

\* a..=b as the sequence of its items
RangeInclusive(a, b) == [i \in 1..(b - a + 1) |-> a + i - 1]

\* Tile::bounds: the four sides times 2^zoom (tile_size cancels against pixel_size)
bounds(t) ==
    LET span == 2 * WEB_MERCATOR_EXTENT                  \* tile_size * pixel_size * 2^zoom
        min_x == t.x * span - WEB_MERCATOR_EXTENT * Pow2(t.zoom)
        max_y == WEB_MERCATOR_EXTENT * Pow2(t.zoom) - t.y * span
    IN  [min_x |-> min_x, min_y |-> max_y - span, max_x |-> min_x + span, max_y |-> max_y]

\* A plausible slip: the last column and row are rounded down instead of up.
bbox_covered_tiles_FloorMax(b, zoom) ==
    LET num(v) == v * Pow2(zoom)
        den == WEB_MERCATOR_EXTENT * 2
        min_tile_x == AsU32(Floor(num(b.min_x + WEB_MERCATOR_EXTENT), den))
        max_tile_x == AsU32(Floor(num(b.max_x + WEB_MERCATOR_EXTENT), den))
        min_tile_y == AsU32(Floor(num(WEB_MERCATOR_EXTENT - b.max_y), den))
        max_tile_y == AsU32(Floor(num(WEB_MERCATOR_EXTENT - b.min_y), den))
    IN  new(zoom, RangeInclusive(min_tile_x, max_tile_x),
                  RangeInclusive(min_tile_y, max_tile_y))

\* bbox_covered_tiles: v / tile_size_meters is (v * 2^zoom) / (2 * EXTENT)
bbox_covered_tiles(b, zoom) ==
    LET num(v) == v * Pow2(zoom)
        den == WEB_MERCATOR_EXTENT * 2
        min_tile_x == AsU32(Floor(num(b.min_x + WEB_MERCATOR_EXTENT), den))
        max_tile_x == AsU32(Ceil(num(b.max_x + WEB_MERCATOR_EXTENT), den)) - 1
        min_tile_y == AsU32(Floor(num(WEB_MERCATOR_EXTENT - b.max_y), den))
        max_tile_y == AsU32(Ceil(num(WEB_MERCATOR_EXTENT - b.min_y), den)) - 1
    IN  new(zoom, RangeInclusive(min_tile_x, max_tile_x),
                  RangeInclusive(min_tile_y, max_tile_y))

(***************************************************************************)
(* bbox_covered_tiles on a box inside the Web Mercator square with         *)
(* min < max on both axes, and the iterator it returns pulled.             *)
(***************************************************************************)
Ordinates == (-WEB_MERCATOR_EXTENT)..WEB_MERCATOR_EXTENT

Boxes ==
    { b \in [min_x : Ordinates, min_y : Ordinates, max_x : Ordinates, max_y : Ordinates] :
        b.min_x < b.max_x /\ b.min_y < b.max_y }

InitCover ==
    /\ op = "init"
    /\ bbox \in Boxes
    /\ arg = 0
    /\ it = None /\ last = None /\ out = <<>>
    /\ tile = None /\ ret = None /\ front = None /\ used = {}
    /\ tiles = <<>> /\ tiles0 = <<>> /\ s = <<>>

BBoxCoveredTiles ==
    /\ op = "init"
    /\ \E z \in 0..MaxZoom :
          /\ arg' = z
          /\ it' = bbox_covered_tiles(bbox, z)
    /\ op' = "covered"
    /\ UNCHANGED <<tile, ret, last, out, front, used, bbox, tiles, tiles0, s>>

NextCover == BBoxCoveredTiles \/ Pull

SpecCover == InitCover /\ [][NextCover]_vars

(***************************************************************************)
(* Claim about bbox_covered_tiles, checked under SpecCover.                *)
(***************************************************************************)
\* the tile's footprint and the box share an area, not just an edge or a corner
Overlaps(t, b) ==
    LET f == bounds(t)
        k == Pow2(t.zoom)
    IN  /\ f.min_x < b.max_x * k /\ f.max_x > b.min_x * k
        /\ f.min_y < b.max_y * k /\ f.max_y > b.min_y * k

Min(S) == CHOOSE v \in S : \A w \in S : v <= w
Max(S) == CHOOSE v \in S : \A w \in S : v >= w

\* C4: for a box inside the square with min < max on both axes the iterator
\* yields, row-major, exactly the tiles of the zoom whose footprint overlaps the
\* box with positive area, and they fill the rectangle from
\* (floor((min_x+E)/s), floor((E-max_y)/s)) to (ceil((max_x+E)/s)-1, ceil((E-min_y)/s)-1).
C4_CoveredTilesAreTheOverlappingRectangle ==
    (op = "covered") =>
        LET z == arg
            E == WEB_MERCATOR_EXTENT
            grid == 0..(Pow2(z) - 1)
            hit == {t \in [zoom : {z}, x : grid, y : grid] : Overlaps(t, bbox)}
            xs == {t.x : t \in hit}
            ys == {t.y : t \in hit}
            all == RowMajor(z, RangeInclusive(Min(xs), Max(xs)),
                               RangeInclusive(Min(ys), Max(ys)))
        IN  /\ hit # {}
            /\ Min(xs) = ((bbox.min_x + E) * Pow2(z)) \div (2 * E)
            /\ Max(xs) = Ceil((bbox.max_x + E) * Pow2(z), 2 * E) - 1
            /\ Min(ys) = ((E - bbox.max_y) * Pow2(z)) \div (2 * E)
            /\ Max(ys) = Ceil((E - bbox.min_y) * Pow2(z), 2 * E) - 1
            /\ Range(all) = hit
            /\ IsPrefix(out, all)
            /\ last = Some(None) => out = all

\* a box whose right and lower sides lie on tile edges, enumerated to the end
C4_Witness ==
    /\ op = "covered" /\ last = Some(None)
    /\ arg = MaxZoom
    /\ bbox.max_x = 0 /\ bbox.min_y = 0
    /\ Len(out) >= 2
    /\ out[1].y < out[Len(out)].y /\ out[1].x < out[Len(out)].x

====
